---- MODULE Spec2Model ----
(***************************************************************************)
(* A model of the QDR portfolio optimizer (qdr_core/engine.py).            *)
(*                                                                         *)
(* QuantumOptimizer(prices) derives the return statistics mu and sigma of  *)
(* a price frame; optimize_portfolio(risk_aversion, num_slices) builds the *)
(* binary objective, lets the annealing sampler return num_reads samples,  *)
(* selects the sample of lowest energy, decodes it into slice counts and   *)
(* normalises them into weights.                                           *)
(*                                                                         *)
(* Floating-point values are modelled as exact rationals with a NaN value  *)
(* that propagates as IEEE arithmetic does.  The sampler is modelled by    *)
(* what it may return: any sequence of bit assignments.                    *)
(***************************************************************************)
EXTENDS Integers, Sequences, FiniteSets, TLC

VARIABLES
    pc,             \* "new", "ready" (constructed), "done" (result returned), "raised"
    prices,         \* self.prices: column index -> sequence of prices
    tickers,        \* self.tickers: sequence of column names
    returns,        \* self.returns: column index -> sequence of simple returns
    mu,             \* self.mu: column index -> mean return
    sigma,          \* self.sigma: column index -> column index -> covariance
    risk_aversion,  \* argument of the current optimize_portfolio call
    num_slices,     \* argument of the current optimize_portfolio call
    objective_built,\* H.compile() / to_bqm() of the current call completed
    solver_runs,    \* sa.sample(...) calls started by the current call
    sampleset,      \* the samples the sampler returned, in iteration order
    best_sample,    \* the sample selected by min(..., key=energy)
    result,         \* the dictionary optimize_portfolio returned
    prev,           \* the best sample of the preceding call on the same model
    scoring,        \* the calculate_portfolio_metrics calls made: arguments and results
    codec,          \* the bit register: its size, the units written and read back
    quote,          \* the last get_realtime_price call: ticker, sources, result
    api,            \* the last POST /optimize request and its answer
    sidebar,        \* the dashboard's sidebar inputs: tickers and mode
    downloads,      \* price frames the dashboard has downloaded so far
    session         \* st.session_state: data, optimized, optimization_result

vars == <<pc, prices, tickers, returns, mu, sigma, risk_aversion, num_slices,
          objective_built, solver_runs, sampleset, best_sample, result, prev,
          scoring, codec, quote, api, sidebar, downloads, session>>

\* The state outside the optimizer object and its optimize_portfolio call.
others == <<scoring, codec, quote, api, sidebar, downloads, session>>

(***************************************************************************)
(* Bounds of the model.                                                    *)
(***************************************************************************)
MaxRows == 3        \* rows of a price frame: 0..MaxRows
MaxSlices == 2      \* num_slices arguments: -1..MaxSlices
MaxReads == 2       \* samples the sampler returns per call (the code asks for 100)
MaxScoreCalls == 2  \* standalone calculate_portfolio_metrics calls on one optimizer
MaxCodecSlices == 33 \* largest num_slices the bit register is sized for
MaxDownloads == 3   \* successful price downloads in one dashboard session

\* Column names a price frame can carry; a frame has a prefix of them.
Universe == <<"A", "B">>

\* Shapes of a price column: doubling, halving, alternating 1, 2, 1, ...
Shapes == {"rising", "falling", "zigzag"}

RiskInputs == {-1, 0, 1}
SliceInputs == (-1)..MaxSlices

(***************************************************************************)
(* Numbers: exact rationals num/den (den > 0, lowest terms) and NaN.       *)
(***************************************************************************)
Abs(x) == IF x < 0 THEN -x ELSE x

RECURSIVE GCD(_, _)
GCD(a, b) == IF b = 0 THEN a ELSE GCD(b, a % b)

NaN == [nan |-> TRUE, num |-> 0, den |-> 1]

Q(n, d) ==
    LET s == IF d < 0 THEN -1 ELSE 1
        g == GCD(Abs(n), Abs(d))
    IN  [nan |-> FALSE, num |-> (s * n) \div g, den |-> (s * d) \div g]

Z(n) == [nan |-> FALSE, num |-> n, den |-> 1]

IsNaN(a) == a.nan

RAdd(a, b) ==
    IF a.nan \/ b.nan THEN NaN
    ELSE Q(a.num * b.den + b.num * a.den, a.den * b.den)

RNeg(a) == IF a.nan THEN NaN ELSE [a EXCEPT !.num = -a.num]

RSub(a, b) == RAdd(a, RNeg(b))

RMul(a, b) ==
    IF a.nan \/ b.nan THEN NaN ELSE Q(a.num * b.num, a.den * b.den)

\* Division as numpy performs it on the statistics: 0/0 is NaN.
RDiv(a, b) ==
    IF a.nan \/ b.nan \/ b.num = 0 THEN NaN
    ELSE Q(a.num * b.den, a.den * b.num)

\* a < b; every comparison with NaN is false.
RLess(a, b) ==
    IF a.nan \/ b.nan THEN FALSE ELSE a.num * b.den < b.num * a.den

REq(a, b) == ~a.nan /\ ~b.nan /\ a.num * b.den = b.num * a.den

RECURSIVE Pow2(_)
Pow2(b) == IF b = 0 THEN 1 ELSE 2 * Pow2(b - 1)

\* Sum of f[i] (rationals) over i in 1..n, accumulated left to right.
RECURSIVE RSum(_, _)
RSum(f, n) == IF n = 0 THEN Z(0) ELSE RAdd(RSum(f, n - 1), f[n])

\* Sum of f[i] (integers) over i in 1..n.
RECURSIVE ISum(_, _)
ISum(f, n) == IF n = 0 THEN 0 ELSE ISum(f, n - 1) + f[n]

(***************************************************************************)
(* QuantumOptimizer.__init__: the statistics of a price frame.             *)
(***************************************************************************)
PriceColumn(shape, T) ==
    [t \in 1..T |->
        CASE shape = "rising"  -> Pow2(t - 1)
          [] shape = "falling" -> Pow2(T - t)
          [] shape = "zigzag"  -> IF t % 2 = 1 THEN 1 ELSE 2]

\* prices.pct_change().dropna(): row t of the result is p[t+1]/p[t] - 1.
PctChange(col) ==
    IF Len(col) = 0 THEN << >>
    ELSE [t \in 1..(Len(col) - 1) |-> RSub(RDiv(Z(col[t + 1]), Z(col[t])), Z(1))]

\* returns.mean(): the mean of no rows is NaN.
Mean(r) == RDiv(RSum(r, Len(r)), Z(Len(r)))

\* returns.cov(): sample covariance (ddof = 1); fewer than two rows give NaN
\* (no observation, or 0/0 for a single one).
Cov(r, s) ==
    LET m == Len(r)
        dev == [t \in 1..m |-> RMul(RSub(r[t], Mean(r)), RSub(s[t], Mean(s)))]
    IN  IF m = 0 THEN NaN ELSE RDiv(RSum(dev, m), Z(m - 1))

NAssets == Len(tickers)

\* A price frame: the shape of each column and the number of rows.
Frames ==
    UNION {[shape : [1..n -> Shapes], rows : 0..MaxRows] : n \in 0..Len(Universe)}

ConstructFrom(frames) ==
    /\ pc = "new"
    /\ \E f \in frames :
       \E n \in {Len(f.shape)} :
       \E p \in {[i \in 1..n |-> PriceColumn(f.shape[i], f.rows)]} :
       \E r \in {[i \in 1..n |-> PctChange(p[i])]} :
          /\ prices' = p
          /\ returns' = r
          /\ mu' = [i \in 1..n |-> Mean(r[i])]
          /\ sigma' = [i \in 1..n |-> [j \in 1..n |-> Cov(r[i], r[j])]]
          /\ tickers' = SubSeq(Universe, 1, n)
    /\ pc' = "ready"
    /\ UNCHANGED <<risk_aversion, num_slices, objective_built, solver_runs,
                   sampleset, best_sample, result, prev>>
    /\ UNCHANGED others

Construct == ConstructFrom(Frames)

NoSample == [sample |-> << >>, energy |-> NaN]
NoResult == [status |-> "none"]

(***************************************************************************)
(* QuantumOptimizer.calculate_portfolio_metrics.                           *)
(*                                                                         *)
(* A square root is kept exact as a signed root: the number sign*sqrt(sq)  *)
(* with sq a rational >= 0.  A non-finite float (NaN, inf) is nan.         *)
(***************************************************************************)
TradingDays == 252

RootNaN == [nan |-> TRUE, sign |-> 0, sq |-> Z(0)]

RootZero == [nan |-> FALSE, sign |-> 0, sq |-> Z(0)]

Sign(x) == IF x > 0 THEN 1 ELSE IF x < 0 THEN -1 ELSE 0

\* np.sqrt(a): NaN for a NaN or negative argument.
Sqrt(a) ==
    IF a.nan \/ a.num < 0 THEN RootNaN
    ELSE [nan |-> FALSE, sign |-> Sign(a.num), sq |-> a]

\* The product of two roots.
RootMul(r, t) ==
    IF r.nan \/ t.nan THEN RootNaN
    ELSE [nan |-> FALSE, sign |-> r.sign * t.sign, sq |-> RMul(r.sq, t.sq)]

\* a / r for a float a and a root r; a float division by zero is inf or NaN.
RootDiv(a, r) ==
    IF a.nan \/ r.nan \/ r.sign = 0 THEN RootNaN
    ELSE [nan |-> FALSE, sign |-> Sign(a.num) * r.sign,
          sq |-> RDiv(RMul(a, a), r.sq)]

\* r > 0; false for NaN.
RootPositive(r) == ~r.nan /\ r.sign > 0

\* weights = np.array([weights_dict.get(ticker, 0.0) for ticker in self.tickers])
WeightsArray(weights_dict) ==
    [i \in 1..NAssets |->
        IF tickers[i] \in DOMAIN weights_dict THEN weights_dict[tickers[i]]
        ELSE Z(0)]

\* variance = np.dot(weights.T, np.dot(self.sigma, weights))
Variance(w) ==
    RSum([i \in 1..NAssets |->
            RMul(w[i],
                 RSum([j \in 1..NAssets |-> RMul(sigma[i][j], w[j])], NAssets))],
         NAssets)

\* volatility = np.sqrt(variance) * np.sqrt(252)
Volatility(w) == RootMul(Sqrt(Variance(w)), Sqrt(Z(TradingDays)))

\* expected_return = np.dot(weights.T, self.mu) * 252
ExpectedReturn(w) ==
    RMul(RSum([i \in 1..NAssets |-> RMul(w[i], mu[i])], NAssets), Z(TradingDays))

\* The ratio computed without the "if volatility > 0" guard.
SharpeRatioUnguarded(expected_return, volatility) ==
    RootDiv(expected_return, volatility)

\* float(expected_return / volatility) if volatility > 0 else 0.0
SharpeRatio(expected_return, volatility) ==
    IF RootPositive(volatility) THEN RootDiv(expected_return, volatility)
    ELSE RootZero

\* The dictionary calculate_portfolio_metrics returns for the weights array w.
Metrics(w) ==
    CHOOSE m \in {[volatility |-> volatility,
                   expected_return |-> expected_return,
                   sharpe_ratio |-> SharpeRatio(expected_return, volatility)] :
                      volatility \in {Volatility(w)},
                      expected_return \in {ExpectedReturn(w)}} : TRUE

\* The dictionaries a caller passes: weights for some of the column names.
WeightValues == {Z(0), Q(1, 2), Z(1)}

WeightDicts ==
    UNION {[names -> WeightValues] : names \in SUBSET {Universe[i] : i \in 1..Len(Universe)}}

\* A standalone call of calculate_portfolio_metrics on the constructed optimizer.
Score ==
    /\ pc = "ready"
    /\ Len(scoring) < MaxScoreCalls
    /\ \E d \in WeightDicts :
          scoring' = Append(scoring,
                            [weights_dict |-> d, metrics |-> Metrics(WeightsArray(d))])
    /\ UNCHANGED <<pc, prices, tickers, returns, mu, sigma, risk_aversion,
                   num_slices, objective_built, solver_runs, sampleset,
                   best_sample, result, prev, codec, quote, api, sidebar,
                   downloads, session>>

(***************************************************************************)
(* QuantumOptimizer.optimize_portfolio.                                    *)
(***************************************************************************)
\* ceil(log2(num_slices)): a width without the "+ 1".
RECURSIVE NumBitsCeil(_)
NumBitsCeil(n) == IF n <= 1 THEN 0 ELSE 1 + NumBitsCeil((n + 1) \div 2)

\* num_bits = math.floor(math.log2(num_slices)) + 1, for num_slices >= 1.
RECURSIVE NumBits(_)
NumBits(n) == IF n <= 1 THEN 1 ELSE 1 + NumBits(n \div 2)

\* The names of the binary variables x[i][b] of Array.create.
BitNames(n, bits) == (1..n) \X (0..(bits - 1))

\* Every assignment of the binary variables: what one read can end in.
Samples(n, bits) == [BitNames(n, bits) -> {0, 1}]

\* An expression that weighs bit b with 2**(b+1).
AssetsKExprShifted(s, i, bits) ==
    ISum([c \in 1..bits |-> Pow2(c) * s[<<i, c - 1>>]], bits)

\* assets_k_expr[i] = sum over b of (2**b) * x[i][b], evaluated on a sample.
AssetsKExpr(s, i, bits) ==
    ISum([c \in 1..bits |-> Pow2(c - 1) * s[<<i, c - 1>>]], bits)

\* total_units_expr = sum(assets_k_expr), evaluated on a sample.
TotalUnitsExpr(s, n, bits) ==
    ISum([i \in 1..n |-> AssetsKExpr(s, i, bits)], n)

\* Risk term: sum over i, j of cov_matrix[i][j] * k_i * k_j.
RiskTerm(s, n, bits) ==
    RSum([i \in 1..n |->
            RSum([j \in 1..n |->
                    RMul(sigma[i][j],
                         Z(AssetsKExpr(s, i, bits) * AssetsKExpr(s, j, bits)))],
                 n)],
         n)

\* return_term = sum over i of mu_vector[i] * k_i.
ReturnTerm(s, n, bits) ==
    RSum([i \in 1..n |-> RMul(mu[i], Z(AssetsKExpr(s, i, bits)))], n)

\* The expression under Constraint(..., label='sum_constraint').
ConstraintEnergy(s, n, bits, slices) ==
    (TotalUnitsExpr(s, n, bits) - slices) * (TotalUnitsExpr(s, n, bits) - slices)

\* H = risk - risk_aversion * num_slices * return_term + constraint.
Energy(s, n, bits, lambda, slices) ==
    RAdd(RSub(RiskTerm(s, n, bits),
              RMul(Z(lambda * slices), ReturnTerm(s, n, bits))),
         Z(ConstraintEnergy(s, n, bits, slices)))

\* model.to_bqm(): the value of H for every assignment, tabulated once per
\* call (a singleton set; the comparison makes TLC store the table).
EnergyTable(n, bits, lambda, slices) ==
    {e \in {[s \in Samples(n, bits) |-> Energy(s, n, bits, lambda, slices)]} : e = e}

\* best_sample.constraints(only_broken=True) == {}: the constraint's energy is 0.
ConstraintsUnbroken(s, n, bits, slices) ==
    ConstraintEnergy(s, n, bits, slices) = 0

\* min(decoded_samples, key=lambda x: x.energy): the first sample that no
\* earlier sample ties or beats and that beats the running minimum.
RECURSIVE MinIndex(_, _)
MinIndex(energies, k) ==
    IF k = 1 THEN 1
    ELSE LET m == MinIndex(energies, k - 1)
         IN  IF RLess(energies[k], energies[m]) THEN k ELSE m

\* A decoder that reads asset i's bits in the opposite order.
DecodeUnitsReversed(s, i, bits) ==
    ISum([c \in 1..bits |-> Pow2(c - 1) * s[<<i, bits - c>>]], bits)

\* The manual decode loop: val = sum over b of (2**b) * sample['x[i][b]'].
DecodeUnits(s, i, bits) ==
    ISum([c \in 1..bits |-> Pow2(c - 1) * s[<<i, c - 1>>]], bits)

(***************************************************************************)
(* The bit register on its own: sized as lines 52-59 size it, written with *)
(* the binary digits of a vector of slice counts, valued by the            *)
(* objective's expressions and read back by the decode loop.               *)
(***************************************************************************)
NoCodec ==
    [step |-> "idle", num_slices |-> 0, n_assets |-> 0, num_bits |-> 0,
     k |-> << >>, sample |-> << >>, objective_k |-> << >>, decoded |-> << >>]

\* Binary digit b of the integer v.
Digit(v, b) == (v \div Pow2(b)) % 2

\* n_assets = len(self.tickers); num_bits; x = Array.create(...).
SizeRegister ==
    /\ codec.step = "idle"
    /\ \E slices \in 1..MaxCodecSlices, n \in 1..Len(Universe) :
          codec' = [codec EXCEPT !.step = "sized", !.num_slices = slices,
                                 !.n_assets = n, !.num_bits = NumBits(slices)]
    /\ UNCHANGED <<pc, prices, tickers, returns, mu, sigma, risk_aversion,
                   num_slices, objective_built, solver_runs, sampleset,
                   best_sample, result, prev, scoring, quote, api, sidebar,
                   downloads, session>>

\* A sample holding the slice counts k, and the objective's value of each
\* assets_k_expr[i] on it.
WriteUnits ==
    /\ codec.step = "sized"
    /\ \E k \in [1..codec.n_assets -> 0..(Pow2(codec.num_bits) - 1)] :
       \E s \in {[name \in BitNames(codec.n_assets, codec.num_bits) |->
                     Digit(k[name[1]], name[2])]} :
          codec' = [codec EXCEPT
                      !.step = "written", !.k = k, !.sample = s,
                      !.objective_k = [i \in 1..codec.n_assets |->
                                          AssetsKExpr(s, i, codec.num_bits)]]
    /\ UNCHANGED <<pc, prices, tickers, returns, mu, sigma, risk_aversion,
                   num_slices, objective_built, solver_runs, sampleset,
                   best_sample, result, prev, scoring, quote, api, sidebar,
                   downloads, session>>

\* The decode loop on the written sample.
ReadUnits ==
    /\ codec.step = "written"
    /\ codec' = [codec EXCEPT
                   !.step = "read",
                   !.decoded = [i \in 1..codec.n_assets |->
                                   DecodeUnits(codec.sample, i, codec.num_bits)]]
    /\ UNCHANGED <<pc, prices, tickers, returns, mu, sigma, risk_aversion,
                   num_slices, objective_built, solver_runs, sampleset,
                   best_sample, result, prev, scoring, quote, api, sidebar,
                   downloads, session>>

\* A decoder that assigns total_k = val where the code accumulates.
TotalKLastOnly(units, n) ==
    LET t == IF n = 0 THEN 0 ELSE units[n] IN IF t = 0 THEN 1 ELSE t

\* total_k with the guard "if total_k == 0: total_k = 1".
TotalK(units, n) ==
    LET t == ISum(units, n) IN IF t = 0 THEN 1 ELSE t

\* normalized_weights = {k: v / total_k}.
Normalize(v, total_k) == Q(v, total_k)

Status(s, n, bits, slices) ==
    IF ConstraintsUnbroken(s, n, bits, slices) THEN "optimal" ELSE "approximate"

\* The statistics hold a NaN, so every coefficient of H they enter is NaN.
NaNObjective(n) ==
    \E i \in 1..n : IsNaN(mu[i]) \/ \E j \in 1..n : IsNaN(sigma[i][j])

Raise(built, runs) ==
    /\ pc' = "raised"
    /\ objective_built' = built
    /\ solver_runs' = runs
    /\ sampleset' = << >>
    /\ best_sample' = NoSample
    /\ result' = NoResult

\* metrics = self.calculate_portfolio_metrics(normalized_weights), tabulated
\* once per call for every vector of decoded units (a singleton set; the
\* comparison makes TLC store the table).
MetricsTable(n, bits) ==
    {m \in {[units \in [1..n -> 0..(Pow2(bits) - 1)] |->
                Metrics([i \in 1..n |-> Normalize(units[i], TotalK(units, n))])]} :
        m = m}

\* The tail of optimize_portfolio from the sampler's return on: selection of
\* the best sample, manual decode, normalisation, metrics and status.  energy
\* maps each assignment to the value of H on it, metrics_of each vector of
\* units to the metrics of its normalized weights.
Return(ss, energy, metrics_of, n, bits, slices) ==
    \E at \in {MinIndex([k \in 1..Len(ss) |-> energy[ss[k]]], Len(ss))} :
    \E units \in {[i \in 1..n |-> DecodeUnits(ss[at], i, bits)]} :
    \E total_k \in {TotalK(units, n)} :
    \E normalized_weights \in {[i \in 1..n |-> Normalize(units[i], total_k)]} :
        /\ pc' = "done"
        /\ objective_built' = TRUE
        /\ solver_runs' = 1
        /\ sampleset' = ss
        /\ best_sample' = [sample |-> ss[at], energy |-> energy[ss[at]]]
        /\ result' =
              [weights |-> normalized_weights,
               metrics |-> metrics_of[units],
               original_units |-> units,
               status |-> Status(ss[at], n, bits, slices)]

Call(lambda, slices) ==
    /\ risk_aversion' = lambda
    /\ num_slices' = slices
    /\ IF slices <= 0
       THEN \* math.log2 raises ValueError
            Raise(FALSE, 0)
       ELSE IF NAssets = 0
       THEN \* no variable exists; building the constraint of a plain number raises
            Raise(FALSE, 0)
       ELSE \E bits \in {NumBits(slices)} :
            \/ \E energy \in EnergyTable(NAssets, bits, lambda, slices) :
               \E metrics_of \in MetricsTable(NAssets, bits) :
               \E ss \in [1..MaxReads -> Samples(NAssets, bits)] :
                  Return(ss, energy, metrics_of, NAssets, bits, slices)
            \/ /\ NaNObjective(NAssets)
               /\ \/ Raise(FALSE, 0)
                  \/ Raise(TRUE, 1)
    /\ UNCHANGED <<prices, tickers, returns, mu, sigma>>

OptimizeWith(risks, slicings) ==
    /\ pc = "ready"
    /\ \E lambda \in risks, slices \in slicings : Call(lambda, slices)
    /\ prev' = NoSample
    /\ UNCHANGED others

Optimize == OptimizeWith(RiskInputs, SliceInputs)

\* A second call on the same optimizer with the same arguments.
Repeat ==
    /\ pc = "done"
    /\ prev = NoSample
    /\ Call(risk_aversion, num_slices)
    /\ prev' = best_sample
    /\ UNCHANGED others

(***************************************************************************)
(* DataIngestion.get_realtime_price (ingestion.py) and the POST /optimize  *)
(* handler (main.py).  The network sources answer as an oracle says.       *)
(***************************************************************************)
ApiTickers == {"AAPL", "BTC-USD"}

\* "-USD" in ticker
ContainsUsd(ticker) == ticker \in {"BTC-USD"}

\* What each source does when asked: Binance answers 200 with a price,
\* answers another status, or raises; fast_info.last_price is a price, is
\* None or 0, or raises; history("1d") has a row, is empty, or raises.
SourceOutcomes ==
    [binance : {"price", "status", "exception"},
     fast_info : {"price", "none", "exception"},
     history : {"price", "empty", "exception"}]

\* The prices the three sources quote (distinct, to tell them apart).
BinancePrice == 3
FastInfoPrice == 5
HistoryPrice == 7

SourcePrice(source) ==
    CASE source = "binance" -> BinancePrice
      [] source = "fast_info" -> FastInfoPrice
      [] source = "history" -> HistoryPrice

\* The sources in the order of the docstring's hierarchy.
Sources(ticker) ==
    IF ContainsUsd(ticker) THEN <<"binance", "fast_info", "history">>
    ELSE <<"fast_info", "history">>

\* get_realtime_price: the price returned and the sources consulted.  Both
\* try blocks catch Exception, so no outcome raises.
GetRealtimePrice(ticker, o) ==
    LET first == IF ContainsUsd(ticker) THEN <<"binance">> ELSE << >>
    IN  IF ContainsUsd(ticker) /\ o.binance = "price"
        THEN [price |-> BinancePrice, consulted |-> first, raised |-> FALSE]
        ELSE IF o.fast_info = "price"
        THEN [price |-> FastInfoPrice, consulted |-> first \o <<"fast_info">>,
              raised |-> FALSE]
        ELSE IF o.fast_info = "exception"
        THEN [price |-> 0, consulted |-> first \o <<"fast_info">>,
              raised |-> FALSE]
        ELSE IF o.history = "price"
        THEN [price |-> HistoryPrice,
              consulted |-> first \o <<"fast_info", "history">>, raised |-> FALSE]
        ELSE [price |-> 0, consulted |-> first \o <<"fast_info", "history">>,
              raised |-> FALSE]

NoQuote ==
    [step |-> "none", ticker |-> "", outcomes |-> << >>, price |-> 0,
     consulted |-> << >>, raised |-> FALSE]

\* One call of get_realtime_price.
RealtimePrice ==
    /\ quote.step = "none"
    /\ \E ticker \in ApiTickers, o \in SourceOutcomes :
       \E got \in {GetRealtimePrice(ticker, o)} :
          quote' = [step |-> "returned", ticker |-> ticker, outcomes |-> o,
                    price |-> got.price, consulted |-> got.consulted,
                    raised |-> got.raised]
    /\ UNCHANGED <<pc, prices, tickers, returns, mu, sigma, risk_aversion,
                   num_slices, objective_built, solver_runs, sampleset,
                   best_sample, result, prev, scoring, codec, api, sidebar,
                   downloads, session>>

\* request.tickers: lists without repetition over the ticker names.
TickerLists ==
    {<< >>} \cup {<<t>> : t \in ApiTickers}
            \cup {p \in ApiTickers \X ApiTickers : p[1] # p[2]}

\* What get_historical_data does: returns a frame with some of the asked
\* columns and some rows (pd.DataFrame() has neither), or raises.
Columns(asked, keep) ==
    LET Kept(t) == t \in keep IN SelectSeq(asked, Kept)

IngestionOutcomes(asked) ==
    {[raised |-> FALSE, columns |-> Columns(asked, keep), rows |-> r] :
        keep \in SUBSET {asked[i] : i \in 1..Len(asked)}, r \in {0, 1}}
    \cup {[raised |-> TRUE, columns |-> << >>, rows |-> 0]}

\* prices.empty: no column or no row.
FrameEmpty(frame) == Len(frame.columns) = 0 \/ frame.rows = 0

NoException == [raised |-> FALSE, type |-> "", status_code |-> 0]

HTTPException(code) == [raised |-> TRUE, type |-> "HTTPException", status_code |-> code]

RuntimeFailure == [raised |-> TRUE, type |-> "Exception", status_code |-> 0]

\* The try body of the handler: what it raises or returns, and the calls
\* it has made by then.
TryBody(asked, frame, quotes, optimizer_raises) ==
    IF asked = << >>
    THEN [exc |-> HTTPException(400), ingestion_calls |-> 0, lookups |-> << >>,
          optimizer_calls |-> 0]
    ELSE IF frame.raised
    THEN [exc |-> RuntimeFailure, ingestion_calls |-> 1, lookups |-> << >>,
          optimizer_calls |-> 0]
    ELSE IF FrameEmpty(frame)
    THEN [exc |-> HTTPException(404), ingestion_calls |-> 1, lookups |-> quotes,
          optimizer_calls |-> 0]
    ELSE IF optimizer_raises
    THEN [exc |-> RuntimeFailure, ingestion_calls |-> 1, lookups |-> quotes,
          optimizer_calls |-> 1]
    ELSE [exc |-> NoException, ingestion_calls |-> 1, lookups |-> quotes,
          optimizer_calls |-> 1]

\* except Exception as e: raise HTTPException(status_code=500, ...).  Every
\* exception of the try body is an Exception, HTTPException included.
ExceptException(exc) == IF exc.raised THEN 500 ELSE 200

NoAnswer ==
    [step |-> "none", tickers |-> << >>, frame_raised |-> FALSE,
     frame_empty |-> FALSE, processed_tickers |-> << >>,
     optimizer_raised |-> FALSE, raised_in_try |-> NoException,
     status_code |-> 0, ingestion_calls |-> 0, optimizer_calls |-> 0,
     outcomes |-> << >>, lookups |-> << >>]

\* The POST /optimize handler, from the request to the answer.
OptimizeHandler ==
    /\ api.step = "none"
    /\ \E asked \in TickerLists :
       \E frame \in IngestionOutcomes(asked) :
       \E o \in [1..Len(frame.columns) -> SourceOutcomes] :
       \E optimizer_raises \in BOOLEAN :
       \E quotes \in {[i \in 1..Len(frame.columns) |->
                          GetRealtimePrice(frame.columns[i], o[i])]} :
       \E try \in {TryBody(asked, frame, quotes, optimizer_raises)} :
          api' = [step |-> "answered", tickers |-> asked,
                  frame_raised |-> try.ingestion_calls = 1 /\ frame.raised,
                  frame_empty |-> try.ingestion_calls = 1 /\ ~frame.raised
                                    /\ FrameEmpty(frame),
                  processed_tickers |->
                      IF Len(try.lookups) = 0 THEN << >> ELSE frame.columns,
                  optimizer_raised |-> try.optimizer_calls = 1 /\ optimizer_raises,
                  raised_in_try |-> try.exc,
                  status_code |-> ExceptException(try.exc),
                  ingestion_calls |-> try.ingestion_calls,
                  optimizer_calls |-> try.optimizer_calls,
                  outcomes |-> IF Len(try.lookups) = 0 THEN << >> ELSE o,
                  lookups |-> try.lookups]
    /\ UNCHANGED <<pc, prices, tickers, returns, mu, sigma, risk_aversion,
                   num_slices, objective_built, solver_runs, sampleset,
                   best_sample, result, prev, scoring, codec, quote, sidebar,
                   downloads, session>>

(***************************************************************************)
(* The dashboard (app.py): one script run per interaction; session_state   *)
(* is what survives from run to run.  A downloaded frame is identified by  *)
(* the number of its download and carries its columns.                     *)
(***************************************************************************)
DefaultTickers == <<"A", "B">>

\* The sidebar's ticker lists; the empty list stops the script (st.stop).
SidebarTickers == {<< >>, <<"A">>, <<"A", "B">>}

Modes == {"Conservador", "Quantum-Aggressive"}

\* risk_aversion = 2.0 if "Conservador" in mode else 0.1
RiskAversionOf(mode) == IF mode = "Conservador" THEN Q(2, 1) ELSE Q(1, 10)

NoData == [loaded |-> FALSE, download |-> 0, columns |-> << >>]

NoOptimizationResult ==
    [present |-> FALSE, data |-> NoData, risk_aversion |-> Z(0), status |-> "none"]

\* The three session_state defaults.
NewSession ==
    [data |-> NoData, optimized |-> FALSE, optimization_result |-> NoOptimizationResult]

\* A run that presses no button: the user edits the sidebar.
EditSidebar ==
    /\ \E t \in SidebarTickers, m \in Modes :
          /\ <<t, m>> # <<sidebar.tickers, sidebar.mode>>
          /\ sidebar' = [tickers |-> t, mode |-> m]
    /\ UNCHANGED <<pc, prices, tickers, returns, mu, sigma, risk_aversion,
                   num_slices, objective_built, solver_runs, sampleset,
                   best_sample, result, prev, scoring, codec, quote, api,
                   downloads, session>>

\* Storing new data without resetting the optimized flag.
StoreDataKeepFlag(state, df) == [state EXCEPT !.data = df]

\* session_state['data'] = df; session_state['optimized'] = False
StoreData(state, df) == [state EXCEPT !.data = df, !.optimized = FALSE]

\* The "market diagnosis" button: the download gives a frame, gives an
\* empty frame, or raises; only a non-empty frame is stored.
Diagnose ==
    /\ sidebar.tickers # << >>
    /\ \E outcome \in {"frame", "empty", "exception"} :
          IF outcome = "frame"
          THEN /\ downloads < MaxDownloads
               /\ downloads' = downloads + 1
               /\ session' = StoreData(session,
                                       [loaded |-> TRUE, download |-> downloads + 1,
                                        columns |-> sidebar.tickers])
          ELSE UNCHANGED <<downloads, session>>
    /\ UNCHANGED <<pc, prices, tickers, returns, mu, sigma, risk_aversion,
                   num_slices, objective_built, solver_runs, sampleset,
                   best_sample, result, prev, scoring, codec, quote, api,
                   sidebar>>

\* The "optimize" button, offered once data is stored: the optimizer built
\* on df = session_state['data'] returns a result or raises; only a
\* returned result is stored, and optimized is set after it.
PressOptimize ==
    /\ sidebar.tickers # << >>
    /\ session.data.loaded
    /\ \E outcome \in {"optimal", "approximate", "exception"} :
          IF outcome = "exception"
          THEN UNCHANGED session
          ELSE session' = [session EXCEPT
                             !.optimization_result =
                                 [present |-> TRUE, data |-> session.data,
                                  risk_aversion |-> RiskAversionOf(sidebar.mode),
                                  status |-> outcome],
                             !.optimized = TRUE]
    /\ UNCHANGED <<pc, prices, tickers, returns, mu, sigma, risk_aversion,
                   num_slices, objective_built, solver_runs, sampleset,
                   best_sample, result, prev, scoring, codec, quote, api,
                   sidebar, downloads>>

\* What the results column shows: the stored result when optimized is set.
Displayed ==
    IF session.optimized THEN session.optimization_result ELSE NoOptimizationResult

Init ==
    /\ pc = "new"
    /\ prices = << >>
    /\ tickers = << >>
    /\ returns = << >>
    /\ mu = << >>
    /\ sigma = << >>
    /\ risk_aversion = 0
    /\ num_slices = 0
    /\ objective_built = FALSE
    /\ solver_runs = 0
    /\ sampleset = << >>
    /\ best_sample = NoSample
    /\ result = NoResult
    /\ prev = NoSample
    /\ scoring = << >>
    /\ codec = NoCodec
    /\ quote = NoQuote
    /\ api = NoAnswer
    /\ sidebar = [tickers |-> DefaultTickers, mode |-> "Conservador"]
    /\ downloads = 0
    /\ session = NewSession

Next == Construct \/ Optimize

Spec == Init /\ [][Next]_vars

\* Two calls in a row on one optimizer whose statistics are numbers.
FullFrames == {f \in Frames : f.rows = MaxRows}

ConstructFull == ConstructFrom(FullFrames)

OptimizeValid == OptimizeWith({0, 1}, 1..MaxSlices)

NextRepeat == ConstructFull \/ OptimizeValid \/ Repeat

SpecRepeat == Init /\ [][NextRepeat]_vars

\* One optimizer on the two-asset frame A rising, B falling, called with
\* risk_aversion = 0 and num_slices = 10.
ScenarioFrames == {[shape |-> <<"rising", "falling">>, rows |-> 3]}

ConstructScenario == ConstructFrom(ScenarioFrames)

OptimizeScenario == OptimizeWith({0}, {10})

NextScenario == ConstructScenario \/ OptimizeScenario

SpecScenario == Init /\ [][NextScenario]_vars

\* One optimizer and standalone calculate_portfolio_metrics calls on it.
NextMetrics == Construct \/ Score

SpecMetrics == Init /\ [][NextMetrics]_vars

\* The bit register sized, written and read back.
NextCodec == SizeRegister \/ WriteUnits \/ ReadUnits

SpecCodec == Init /\ [][NextCodec]_vars

\* The API server: requests to POST /optimize and price lookups.
NextApi == OptimizeHandler \/ RealtimePrice

SpecApi == Init /\ [][NextApi]_vars

\* The dashboard: sidebar edits and button presses, in any order.
NextDashboard == EditSidebar \/ Diagnose \/ PressOptimize

SpecDashboard == Init /\ [][NextDashboard]_vars

(***************************************************************************)
(* Helpers of the properties.                                              *)
(***************************************************************************)
Bits == NumBits(num_slices)

\* The slice counts the returned dictionary reports, summed.
UnitsTotal == ISum(result.original_units, NAssets)

WeightsTotal == RSum(result.weights, NAssets)

AllBitsZero(s) == \A x \in DOMAIN s : s[x] = 0

InvalidInput == NAssets = 0 \/ num_slices <= 0 \/ risk_aversion < 0

Rows == IF NAssets = 0 THEN 0 ELSE Len(prices[1])

\* mu and sigma hold numbers only (the frame had at least 3 rows).
StatsDefined == ~NaNObjective(NAssets)

\* The call's inputs are the ones the specification admits.
ValidInput == StatsDefined /\ ~InvalidInput

(***************************************************************************)
(* C1: in every result optimize_portfolio returns, the status is "optimal" *)
(* exactly when the reported slice counts (original_units) sum to          *)
(* num_slices, and "approximate" otherwise; a best sample that misses the  *)
(* budget still yields a returned result.                                  *)
(***************************************************************************)
C1_StatusIffBudgetExact ==
    pc = "done" =>
        /\ result.status \in {"optimal", "approximate"}
        /\ (result.status = "optimal") <=> (UnitsTotal = num_slices)

C1_Witness ==
    /\ pc = "done"
    /\ NAssets = 2
    /\ num_slices = 2
    /\ UnitsTotal = 3
    /\ result.status = "approximate"

(***************************************************************************)
(* C2, as stated: for every bit assignment the solver can return the       *)
(* decoded weights are each in [0,1] and sum to 1.                         *)
(***************************************************************************)
C2_WeightsAlwaysSumToOne ==
    (pc = "done" /\ ValidInput) =>
        /\ \A i \in 1..NAssets :
              /\ ~RLess(result.weights[i], Z(0))
              /\ ~RLess(Z(1), result.weights[i])
        /\ REq(WeightsTotal, Z(1))

(***************************************************************************)
(* C2, amended: the decoded weights are each in [0,1]; they sum to 1 when  *)
(* the best sample has at least one bit set, and are all 0 when it has     *)
(* none (total_k is then replaced by 1).                                   *)
(***************************************************************************)
C2_WeightsSumToOneUnlessAllZero ==
    pc = "done" =>
        /\ \A i \in 1..NAssets :
              /\ ~RLess(result.weights[i], Z(0))
              /\ ~RLess(Z(1), result.weights[i])
        /\ IF AllBitsZero(best_sample.sample)
           THEN \A i \in 1..NAssets : REq(result.weights[i], Z(0))
           ELSE REq(WeightsTotal, Z(1))

C2_Witness ==
    /\ pc = "done"
    /\ NAssets = 2
    /\ num_slices = 2
    /\ result.original_units = <<1, 2>>
    /\ result.weights = <<Q(1, 3), Q(2, 3)>>

(***************************************************************************)
(* C3: when the best sample decodes to a total slice count of 0 the call   *)
(* returns (no division by zero) with status "degenerate".                 *)
(***************************************************************************)
C3_ZeroTotalIsDegenerate ==
    (pc = "done" /\ ValidInput /\ UnitsTotal = 0) => result.status = "degenerate"

(***************************************************************************)
(* C4: an empty asset list, num_slices <= 0 or risk_aversion < 0 is        *)
(* rejected before any objective is built or solver run started, and no    *)
(* result is returned.                                                     *)
(***************************************************************************)
C4_InvalidInputRejected ==
    (pc \in {"done", "raised"} /\ StatsDefined /\ InvalidInput) =>
        /\ pc = "raised"
        /\ ~objective_built
        /\ solver_runs = 0
        /\ result = NoResult

(***************************************************************************)
(* C5: a price series of fewer than 2 rows makes the statistics step fail: *)
(* no mu and sigma are produced and no result is returned from them.       *)
(***************************************************************************)
C5_InsufficientDataRaised ==
    (pc # "new" /\ NAssets >= 1 /\ Rows < 2) =>
        /\ pc = "raised"
        /\ mu = << >>
        /\ sigma = << >>
        /\ result = NoResult

(***************************************************************************)
(* C6: the selected best sample has the lowest energy of all the reads'    *)
(* final states, and when several share that lowest energy and one of them *)
(* satisfies the budget constraint, the selected one satisfies it.         *)
(***************************************************************************)
C6_LowestEnergyPreferSatisfied ==
    (pc = "done" /\ ValidInput) =>
        \A e \in EnergyTable(NAssets, Bits, risk_aversion, num_slices) :
            /\ \A k \in 1..Len(sampleset) :
                  ~RLess(e[sampleset[k]], best_sample.energy)
            /\ (\E k \in 1..Len(sampleset) :
                   /\ REq(e[sampleset[k]], best_sample.energy)
                   /\ ConstraintsUnbroken(sampleset[k], NAssets, Bits, num_slices))
               => ConstraintsUnbroken(best_sample.sample, NAssets, Bits, num_slices)

(***************************************************************************)
(* C7: for risk_aversion >= 0 the budget penalty dominates: every bit      *)
(* assignment of globally minimum energy decodes to slice counts that sum  *)
(* exactly to num_slices.                                                  *)
(***************************************************************************)
C7_PenaltyDominates ==
    (pc = "done" /\ ValidInput) =>
        \A e \in EnergyTable(NAssets, Bits, risk_aversion, num_slices) :
        \A s \in DOMAIN e :
            (\A t \in DOMAIN e : ~RLess(e[t], e[s]))
                => ConstraintsUnbroken(s, NAssets, Bits, num_slices)

(***************************************************************************)
(* C8: two runs of the solver on the same model produce the identical bit  *)
(* assignment and the identical energy (the claim asks it of runs with a   *)
(* fixed seed; optimize_portfolio takes none and passes none on).          *)
(***************************************************************************)
C8_RunsReproducible ==
    (pc = "done" /\ ValidInput /\ prev # NoSample) =>
        /\ best_sample.sample = prev.sample
        /\ best_sample.energy = prev.energy

(***************************************************************************)
(* C9: every returned weight is a multiple of 1/num_slices and the         *)
(* allocated units total num_slices.                                       *)
(***************************************************************************)
C9_WeightsMultiplesOfSlice ==
    (pc = "done" /\ ValidInput) =>
        /\ \A i \in 1..NAssets :
              (result.weights[i].num * num_slices) % result.weights[i].den = 0
        /\ UnitsTotal = num_slices

\* The inputs of the two-asset scenario.
ScenarioHolds ==
    /\ NAssets = 2
    /\ \A i, j \in 1..2 : REq(sigma[i][j], Z(0))
    /\ RLess(Z(0), mu[1])
    /\ RLess(mu[2], Z(0))
    /\ risk_aversion = 0
    /\ num_slices = 10

(***************************************************************************)
(* C10: two assets with zero covariance, A of positive and B of negative   *)
(* mean return, num_slices = 10, risk_aversion = 0: every minimum-energy   *)
(* assignment decodes to all 10 slices on A, weights {A: 1.0, B: 0.0}.     *)
(***************************************************************************)
C10_AllSlicesOnA ==
    (pc = "done" /\ ScenarioHolds) =>
        \A e \in EnergyTable(NAssets, Bits, risk_aversion, num_slices) :
        \A s \in DOMAIN e :
            (\A t \in DOMAIN e : ~RLess(e[t], e[s]))
                => /\ DecodeUnits(s, 1, Bits) = 10
                   /\ DecodeUnits(s, 2, Bits) = 0
                   /\ Normalize(DecodeUnits(s, 1, Bits), 10) = Z(1)
                   /\ Normalize(DecodeUnits(s, 2, Bits), 10) = Z(0)

(***************************************************************************)
(* C11: calculate_portfolio_metrics returns sharpe_ratio = expected_return *)
(* / volatility when volatility > 0 and exactly 0 otherwise; with zero     *)
(* portfolio variance it returns volatility = 0 and sharpe_ratio = 0 (no   *)
(* division by zero); the call leaves mu, sigma and tickers as the         *)
(* constructor set them, and the same weights yield the same metrics.      *)
(***************************************************************************)
C11_SharpeGuardedAndPure ==
    /\ \A k \in 1..Len(scoring) :
          LET m == scoring[k].metrics
              w == WeightsArray(scoring[k].weights_dict)
          IN  /\ IF RootPositive(m.volatility)
                 THEN /\ ~m.sharpe_ratio.nan
                      /\ m.sharpe_ratio.sign = Sign(m.expected_return.num)
                      /\ REq(RMul(m.sharpe_ratio.sq, m.volatility.sq),
                             RMul(m.expected_return, m.expected_return))
                 ELSE m.sharpe_ratio = RootZero
              /\ REq(Variance(w), Z(0)) =>
                    (m.volatility = RootZero /\ m.sharpe_ratio = RootZero)
              /\ \A j \in 1..Len(scoring) :
                    scoring[j].weights_dict = scoring[k].weights_dict
                        => scoring[j].metrics = m
    /\ Len(scoring) > 0 =>
          /\ mu = [i \in 1..NAssets |-> Mean(returns[i])]
          /\ sigma = [i \in 1..NAssets |->
                        [j \in 1..NAssets |-> Cov(returns[i], returns[j])]]
          /\ tickers = SubSeq(Universe, 1, Len(prices))

\* Two calls with the same weights on zero-variance statistics of non-zero
\* mean return (the division the guard avoids), and so a repeated call.
C11_Witness ==
    /\ Len(scoring) = 2
    /\ scoring[1].weights_dict = scoring[2].weights_dict
    /\ REq(Variance(WeightsArray(scoring[1].weights_dict)), Z(0))
    /\ ~REq(scoring[1].metrics.expected_return, Z(0))
    /\ scoring[1].metrics.sharpe_ratio = RootZero

C13_DecodeInvertsEncoding ==
    /\ codec.step \in {"written", "read"} => codec.objective_k = codec.k
    /\ codec.step = "read" => codec.decoded = codec.k

\* Two assets with different, asymmetric bit patterns read back.
C13_Witness ==
    /\ codec.step = "read"
    /\ codec.n_assets = 2
    /\ codec.num_bits = 3
    /\ codec.k = <<6, 1>>
    /\ codec.decoded = <<6, 1>>

(***************************************************************************)
(* C14: the POST /optimize handler answers an empty ticker list with       *)
(* status 400 before any ingestion or optimization call, answers 404 when  *)
(* ingestion returns no price data, and answers 500 only for other,        *)
(* unexpected failures.                                                    *)
(***************************************************************************)
C14_DeclaredStatusCodes ==
    api.step = "answered" =>
        /\ api.tickers = << >> =>
              /\ api.status_code = 400
              /\ api.ingestion_calls = 0
              /\ api.optimizer_calls = 0
        /\ (api.tickers # << >> /\ api.frame_empty) => api.status_code = 404
        /\ api.status_code = 500 => (api.frame_raised \/ api.optimizer_raised)

(***************************************************************************)
(* C15: get_realtime_price never propagates an exception and tries its     *)
(* sources in a fixed order (Binance only for "-USD" tickers, then Yahoo   *)
(* fast_info, then Yahoo 1-day history), returning the first price         *)
(* obtained; a later source is consulted only after every earlier one      *)
(* failed or gave no price, and 0.0 is returned exactly when all of them   *)
(* fail; in /optimize every processed ticker gets its own lookup.          *)
(***************************************************************************)
C15_FirstAvailableSourceWins ==
    LET AsClaimed(ticker, o, got) ==
            LET order == Sources(ticker)
                Fails(i) == o[order[i]] # "price"
            IN  /\ ~got.raised
                /\ Len(got.consulted) <= Len(order)
                /\ got.consulted = SubSeq(order, 1, Len(got.consulted))
                /\ \A j \in 1..Len(got.consulted) : \A i \in 1..(j - 1) : Fails(i)
                /\ got.price = 0 <=> \A i \in 1..Len(order) : Fails(i)
                /\ got.price # 0 =>
                      \E i \in 1..Len(order) :
                          /\ ~Fails(i)
                          /\ \A h \in 1..(i - 1) : Fails(h)
                          /\ got.price = SourcePrice(order[i])
    IN  /\ quote.step = "returned" =>
              AsClaimed(quote.ticker, quote.outcomes, quote)
        /\ api.step = "answered" =>
              \A i \in 1..Len(api.lookups) :
                  AsClaimed(api.processed_tickers[i], api.outcomes[i], api.lookups[i])

(***************************************************************************)
(* C16: in the dashboard's session state, after any sequence of "market    *)
(* diagnosis" and "optimize" presses (failed or empty fetches included):   *)
(* whenever optimized is true, optimization_result is not None and was     *)
(* computed from the data now in session_state['data']; every successful   *)
(* replacement of the data resets optimized to false, so a result          *)
(* computed from older data is never displayed.                            *)
(***************************************************************************)
C16_DisplayedResultIsCurrent ==
    /\ [](/\ session.optimized =>
                /\ session.optimization_result.present
                /\ session.optimization_result.data = session.data
          /\ Displayed.present => Displayed.data = session.data)
    /\ [][session'.data # session.data => ~session'.optimized]_vars

\* Data replaced after an optimization: the older result is still stored
\* but is not displayed.
C16_Witness ==
    /\ session.data.download = 2
    /\ session.optimization_result.present
    /\ session.optimization_result.data.download = 1
    /\ ~session.optimized
====
